---- MODULE Spec2Model ----
(***************************************************************************)
(* codeday/graphql-auth: the per-request authorization context.            *)
(*                                                                         *)
(* Three source files are modelled:                                        *)
(*   src/src/errors.js      MissingScopeError, MustLogInError              *)
(*   src/unnamed/part_001   the current context builder (apollo request    *)
(*                          shape) followed by context-helpers.js          *)
(*   src/unnamed/part_000   the older context builder (koa request shape)  *)
(*                          with its helpers written against `this`       *)
(*                                                                         *)
(* JavaScript strings that the code splits or joins are sequences of       *)
(* pieces: a piece is a maximal run of non-whitespace characters (a TLA+   *)
(* string) or one whitespace character (WS).  The empty string is <<>>.    *)
(***************************************************************************)
EXTENDS Integers, Sequences, FiniteSets, TLC

\* ------------------------------------------------------------------ bounds
\* Concurrent invocations of one builder (SpecConc).
NumRequests == 2
\* Longest array handed to an evaluator function (Spec).
MaxArgs == 2
\* Longest requirement array handed to the MissingScopeError constructor (SpecMsg).
MaxReqs == 3

\* ------------------------------------------------------------ JS values
WS == " "
Undefined == "<undefined>"

\* A scope / permission / requirement argument: a string, an array of strings,
\* or null/undefined (an omitted constructor argument).
Null == [t |-> "null", s |-> "", a |-> <<>>]
Str(x) == [t |-> "str", s |-> x, a |-> <<>>]
Arr(q) == [t |-> "arr", s |-> "", a |-> q]

IsArray(x) == x.t = "arr"
IsString(x) == x.t = "str"

\* Sequences over S of length 0..n.
RECURSIVE SeqsUpTo(_, _)
SeqsUpTo(S, n) ==
  IF n = 0 THEN {<<>>}
  ELSE LET shorter == SeqsUpTo(S, n - 1)
       IN shorter \cup {Append(q, x) : q \in {p \in shorter : Len(p) = n - 1}, x \in S}

\* ------------------------------------------------------ string operations
IsWs(p) == p = WS

\* The string held by a run of pieces between two separators: no run of this
\* model holds two adjacent non-whitespace pieces.
Word(s) == IF s = <<>> THEN "" ELSE s[1]

FirstWs(s) == CHOOSE i \in 1..Len(s) : IsWs(s[i]) /\ \A j \in 1..(i - 1) : ~IsWs(s[j])

AfterWsRun(s, i) ==
  IF \E j \in (i + 1)..Len(s) : ~IsWs(s[j])
  THEN CHOOSE j \in (i + 1)..Len(s) : ~IsWs(s[j]) /\ \A k \in (i + 1)..(j - 1) : IsWs(s[k])
  ELSE Len(s) + 1

\* String.prototype.split(/\s+/): the pieces between maximal whitespace runs;
\* '' splits to [''], leading or trailing whitespace yields an empty string.
RECURSIVE SplitWs(_)
SplitWs(s) ==
  IF \A i \in 1..Len(s) : ~IsWs(s[i])
  THEN <<Word(s)>>
  ELSE LET i == FirstWs(s)
       IN <<Word(SubSeq(s, 1, i - 1))>> \o SplitWs(SubSeq(s, AfterWsRun(s, i), Len(s)))

\* split(sep, limit): at most `limit` entries.
SplitWsLimit(s, limit) ==
  LET all == SplitWs(s) IN SubSeq(all, 1, IF Len(all) < limit THEN Len(all) ELSE limit)

\* String.prototype.toLowerCase on the scheme words of the model.
ToLowerCase(w) ==
  CASE w = "Bearer" -> "bearer"
    [] w = "BEARER" -> "bearer"
    [] w = "Basic" -> "basic"
    [] OTHER -> w

\* Array.prototype.includes over strings.
Includes(arr, x) == \E i \in 1..Len(arr) : arr[i] = x

\* Array.prototype.join(sep) over strings, as pieces ('' contributes nothing).
Piece(x) == IF x = "" THEN <<>> ELSE <<x>>

RECURSIVE Join(_, _)
Join(arr, sep) ==
  IF Len(arr) = 0 THEN <<>>
  ELSE IF Len(arr) = 1 THEN Piece(arr[1])
  ELSE Piece(arr[1]) \o <<sep>> \o Join(Tail(arr), sep)

\* Array.prototype.join over strings that are already piece sequences,
\* after filter((e) => e) has dropped the null entries.
RECURSIVE JoinPieces(_, _)
JoinPieces(parts, sep) ==
  IF Len(parts) = 0 THEN <<>>
  ELSE IF Len(parts) = 1 THEN parts[1]
  ELSE parts[1] \o <<sep>> \o JoinPieces(Tail(parts), sep)

\* ------------------------------------------------------------- errors.js
\* What a call does: return a boolean, return undefined, or throw.
NoError == [name |-> "", message |-> <<>>]
Ret(b) == [kind |-> "return", val |-> b, err |-> NoError]
RetVoid == [kind |-> "void", val |-> FALSE, err |-> NoError]
Thrown(e) == [kind |-> "throw", val |-> FALSE, err |-> e]

\* A value that is a string or null.
JsNull == [isNull |-> TRUE, str |-> <<>>]
JsStr(pieces) == [isNull |-> FALSE, str |-> pieces]
\* JavaScript truthiness of such a value: neither null nor ''.
Truthy(m) == ~m.isNull /\ m.str # <<>>

\* makeRequirementMessage with every array rendered by a plain join(', ').
makeRequirementMessagePlainJoin(reqs) ==
  IF IsArray(reqs) /\ Len(reqs.a) > 0 THEN JsStr(Join(reqs.a, ", "))
  ELSE IF IsString(reqs) THEN JsStr(Piece(reqs.s))
  ELSE JsNull

\* MissingScopeError[makeRequirementMessage](reqs).
makeRequirementMessage(reqs) ==
  IF IsArray(reqs) /\ Len(reqs.a) > 1
  THEN JsStr(Join(SubSeq(reqs.a, 1, Len(reqs.a) - 1), ", ")
             \o <<", or ">> \o Piece(reqs.a[Len(reqs.a)]))
  ELSE IF IsArray(reqs) /\ Len(reqs.a) > 0
  THEN JsStr(Piece(reqs.a[1]))
  ELSE IF IsString(reqs)
  THEN JsStr(Piece(reqs.s))
  ELSE JsNull

\* The message the MissingScopeError constructor builds.
MissingScopeMessage(requiresGlobal, requiresEvent) ==
  LET requiresGlobalMessage == makeRequirementMessage(requiresGlobal)
      requiresEventMessage == makeRequirementMessage(requiresEvent)
      clauses ==
        (IF Truthy(requiresGlobalMessage)
         THEN <<requiresGlobalMessage.str \o <<" global scope">> >> ELSE <<>>)
        \o (IF Truthy(requiresEventMessage)
            THEN <<requiresEventMessage.str \o <<" event scope">> >> ELSE <<>>)
      requiresMessage == JoinPieces(clauses, ", or ")
  IN <<"You don't have permission for that.">>
     \o (IF requiresMessage # <<>> THEN <<"(Requires ">> \o requiresMessage \o <<")">> ELSE <<>>)

MissingScopeError(requiresGlobal, requiresEvent) ==
  [name |-> "MissingScopeError", message |-> MissingScopeMessage(requiresGlobal, requiresEvent)]

MustLogInError == [name |-> "MustLogInError", message |-> <<"You must be logged in.">>]

\* A plain `new Error(message)`.
PlainError(message) == [name |-> "Error", message |-> message]

\* The TypeError the engine raises: calling a property that is undefined, or
\* applying `in` to undefined.
TypeError(message) == [name |-> "TypeError", message |-> message]

\* ---------------------------------------------------- context helpers
\* The events container a context holds: the default `[]` (an array), the
\* object the token's events claim decoded to, or undefined when the claim
\* is missing.  own is its own enumerable entries, as <<eventId, permission>>.
EventsArray == [t |-> "array", own |-> {}]
EventsObject(own) == [t |-> "object", own |-> own]
EventsUndefined == [t |-> "undefined", own |-> {}]

OwnKeys(events) == {kv[1] : kv \in events.own}

\* Property names an array or a plain object answers to without owning an
\* entry for them (Array.prototype / Object.prototype and an array's length),
\* restricted to the names the model passes as event ids.
PrototypeKeys(events) ==
  IF events.t = "array" THEN {"length", "constructor"} ELSE {"constructor"}

\* `key in obj` on a defined container.
InOperator(key, events) == key \in OwnKeys(events) \cup PrototypeKeys(events)

\* events[event]: the permission string of an own entry, or a value that is
\* no string (a function, a number, undefined).
PropertyValue(events, event) ==
  IF event \in OwnKeys(events)
  THEN JsStr(<<(CHOOSE kv \in events.own : kv[1] = event)[2]>>)
  ELSE JsNull

\* reduce((accum, s) => accum || s, false)
RECURSIVE ReduceOr(_, _)
ReduceOr(bools, accum) ==
  IF bools = <<>> THEN accum ELSE ReduceOr(Tail(bools), accum \/ Head(bools))

\* (Array.isArray(x) ? x : [x])
AsArray(x) == IF IsArray(x) THEN x.a ELSE <<x.s>>

\* hasScope with the reduction written as `accum && s` from true: every
\* given scope is required instead of any.
hasScopeEvery(ctx, scope) ==
  LET arr == AsArray(scope)
  IN Ret(\A i \in 1..Len(arr) : Includes(ctx.scopes, arr[i]))

\* getScopeContextHelpers(scopes).hasScope, the same in both builders.
hasScope(ctx, scope) ==
  LET arr == AsArray(scope)
      mapped == [i \in 1..Len(arr) |-> Includes(ctx.scopes, arr[i])]
  IN Ret(ReduceOr(mapped, FALSE))

\* The older builder's requireScope calls this.hasScope; `this` of an arrow
\* function at module level is the module's initial exports object, which
\* has no hasScope.
requireScopeKoa(ctx, scope) == Thrown(TypeError(<<"this.hasScope is not a function">>))

requireScope(ctx, scope) ==
  IF ctx.variant = "koa" THEN requireScopeKoa(ctx, scope)
  ELSE IF ~hasScope(ctx, scope).val THEN Thrown(MissingScopeError(scope, Null))
  ELSE RetVoid

\* getEventContextHelpers(events).hasEvent, the same in both builders:
\* `event in events` raises a TypeError when events is undefined.
hasEvent(ctx, event) ==
  IF ctx.events.t = "undefined"
  THEN Thrown(TypeError(<<"Cannot use 'in' operator to search for a key in undefined">>))
  ELSE Ret(InOperator(event, ctx.events))

requireEventKoa(ctx, event) == Thrown(TypeError(<<"this.hasEvent is not a function">>))

requireEvent(ctx, event) ==
  IF ctx.variant = "koa" THEN requireEventKoa(ctx, event)
  ELSE LET h == hasEvent(ctx, event)
       IN IF h.kind = "throw" THEN h
          ELSE IF ~h.val THEN Thrown(MissingScopeError(Null, Str("any")))
          ELSE RetVoid

hasEventScopeKoa(ctx, event, permission) ==
  Thrown(TypeError(<<"this.hasEvent is not a function">>))

hasEventScope(ctx, event, permission) ==
  IF ctx.variant = "koa" THEN hasEventScopeKoa(ctx, event, permission)
  ELSE LET h == hasEvent(ctx, event)
       IN IF h.kind = "throw" THEN h
          ELSE IF ~h.val THEN Ret(FALSE)
          ELSE LET permissionArray == AsArray(permission)
                   stored == PropertyValue(ctx.events, event)
                   mapped == [i \in 1..Len(permissionArray) |->
                                ~stored.isNull /\ stored.str = <<permissionArray[i]>>]
               IN Ret(ReduceOr(mapped, FALSE))

requireEventScopeKoa(ctx, event, permission) ==
  Thrown(TypeError(<<"this.hasEventScope is not a function">>))

requireEventScope(ctx, event, permission) ==
  IF ctx.variant = "koa" THEN requireEventScopeKoa(ctx, event, permission)
  ELSE LET h == hasEventScope(ctx, event, permission)
       IN IF h.kind = "throw" THEN h
          ELSE IF ~h.val THEN Thrown(MissingScopeError(Null, permission))
          ELSE RetVoid

\* ------------------------------------------- the builders' own combinators
\* a || b, where b is evaluated only when a is false and may throw.
OrElse(a, b) == IF a.kind = "throw" THEN a ELSE IF a.val THEN a ELSE b

hasScopeOrEvent(ctx, scope, event) == OrElse(hasScope(ctx, scope), hasEvent(ctx, event))

requireScopeOrEventKoa(ctx, scope, event) ==
  Thrown(TypeError(<<"this.hasScopeOrEvent is not a function">>))

requireScopeOrEvent(ctx, scope, event) ==
  IF ctx.variant = "koa" THEN requireScopeOrEventKoa(ctx, scope, event)
  ELSE LET h == hasScopeOrEvent(ctx, scope, event)
       IN IF h.kind = "throw" THEN h
          ELSE IF ~h.val THEN Thrown(MissingScopeError(scope, Str("any")))
          ELSE RetVoid

hasScopeOrEventScope(ctx, scope, event, eventScope) ==
  OrElse(hasScope(ctx, scope), hasEventScope(ctx, event, eventScope))

requireScopeOrEventScopeKoa(ctx, scope, event, eventScope) ==
  Thrown(TypeError(<<"this.hasScopeOrEventScope is not a function">>))

requireScopeOrEventScope(ctx, scope, event, eventScope) ==
  IF ctx.variant = "koa" THEN requireScopeOrEventScopeKoa(ctx, scope, event, eventScope)
  ELSE LET h == hasScopeOrEventScope(ctx, scope, event, eventScope)
       IN IF h.kind = "throw" THEN h
          ELSE IF ~h.val THEN Thrown(MissingScopeError(scope, eventScope))
          ELSE RetVoid

requireLoggedInKoa(ctx) ==
  IF ~ctx.isLoggedIn THEN Thrown(PlainError(<<"You must be logged in.">>)) ELSE RetVoid

requireLoggedIn(ctx) ==
  IF ctx.variant = "koa" THEN requireLoggedInKoa(ctx)
  ELSE IF ~ctx.isLoggedIn THEN Thrown(MustLogInError) ELSE RetVoid

\* -------------------------------------------------- the model's inputs
Requests == 1..NumRequests
\* part_000 is the koa-shaped builder, part_001 the apollo-shaped one.
Variants == {"koa", "apollo"}

HeaderAbsent == [present |-> FALSE, str |-> <<>>]
HeaderOf(str) == [present |-> TRUE, str |-> str]

\* Authorization header values a request may carry.
AnonymousHeaders ==
  { HeaderAbsent,
    HeaderOf(<<>>),
    HeaderOf(<<"Bearer">>),
    HeaderOf(<<"bearer", WS>>),
    HeaderOf(<<"Basic", WS, "tFull">>),
    HeaderOf(<<"tFull">>),
    HeaderOf(<<WS, "Bearer", WS, "tFull">>) }

BearerHeaders ==
  { HeaderOf(<<"Bearer", WS, "tFull">>),
    HeaderOf(<<"bearer", WS, "tNoEvents">>),
    HeaderOf(<<"BEARER", WS, WS, "tEmptyScope">>),
    HeaderOf(<<"Bearer", WS, "tNoScope">>),
    HeaderOf(<<"Bearer", WS, "tViewer", WS, "trailing">>),
    HeaderOf(<<"Bearer", WS, "tExpired">>),
    HeaderOf(<<"Bearer", WS, "tForged">>) }

Headers == AnonymousHeaders \cup BearerHeaders

\* The headers of the concurrent specification.
ConcHeaders ==
  { HeaderOf(<<>>),
    HeaderOf(<<"Basic", WS, "tFull">>),
    HeaderOf(<<"BEARER", WS, WS, "tEmptyScope">>),
    HeaderOf(<<"Bearer", WS, "tFull">>),
    HeaderOf(<<"bearer", WS, "tNoEvents">>),
    HeaderOf(<<"Bearer", WS, "tNoScope">>),
    HeaderOf(<<"Bearer", WS, "tExpired">>) }

\* A claim of a verified payload that may be missing.
ClaimAbsent == [present |-> FALSE, str |-> <<>>]
Claim(str) == [present |-> TRUE, str |-> str]

\* What the verification collaborator decodes from each token it accepts:
\* the scope claim, the events claim and the identity claims (name, value).
TokenClaims(tok) ==
  CASE tok = "tFull" ->
         [scope |-> Claim(<<"admin", WS, "viewer">>),
          events |-> EventsObject({<<"evt1", "organizer">>}),
          claims |-> {<<"sub", "u1">>, <<"email", "u1@mail">>,
                      <<"https://codeday.xyz/username", "user1">>,
                      <<"https://codeday.xyz/email", "u1@codeday">>,
                      <<"https://codeday.xyz/phone_number", "555">>,
                      <<"https://codeday.xyz/pronoun", "they">>}]
    [] tok = "tNoEvents" ->
         [scope |-> Claim(<<"admin">>),
          events |-> EventsUndefined,
          claims |-> {<<"sub", "u2">>}]
    [] tok = "tEmptyScope" ->
         [scope |-> Claim(<<>>),
          events |-> EventsObject({}),
          claims |-> {<<"sub", "u3">>, <<"email", "u3@mail">>}]
    [] tok = "tNoScope" ->
         [scope |-> ClaimAbsent,
          events |-> EventsObject({<<"evt1", "volunteer">>}),
          claims |-> {<<"sub", "u4">>}]
    [] tok = "tViewer" ->
         [scope |-> Claim(<<"viewer", WS, WS, "nope">>),
          events |-> EventsObject({<<"evt1", "volunteer">>, <<"evt2", "organizer">>}),
          claims |-> {<<"sub", "u5">>, <<"https://codeday.xyz/username", "user5">>}]

ValidTokens == {"tFull", "tNoEvents", "tEmptyScope", "tNoScope", "tViewer"}

\* The errors verifyAsync(token) may reject with: a token the collaborator
\* refuses, or, for a token not yet in tokenCache, a failed or cancelled fetch
\* of the signing key.
VerifyErrors(tok, cache) ==
  IF tok = "tExpired" THEN {"TokenExpiredError"}
  ELSE IF tok \notin ValidTokens THEN {"JsonWebTokenError"}
  ELSE IF tok \in cache THEN {}
  ELSE {"SigningKeyNotFoundError", "Cancelled"}

VerificationError(name) == [name |-> name, message |-> <<"verification failed">>]

\* Arguments handed to the evaluator functions.
ScopeWords == {"admin", "viewer", "nope"}
ScopeArgs == {Str(w) : w \in ScopeWords \cup {""}} \cup {Arr(q) : q \in SeqsUpTo(ScopeWords, MaxArgs)}
EventArgs == {"evt1", "evt2", "evt9", "constructor", "length"}
PermissionWords == {"organizer", "volunteer"}
PermissionArgs == {Str(w) : w \in PermissionWords} \cup {Arr(q) : q \in SeqsUpTo(PermissionWords, MaxArgs)}

\* ------------------------------------------------------------- the state
VARIABLES
  pc,          \* per request: "idle", "awaiting" (suspended at verifyAsync), "returned", "thrown"
  variant,     \* per request: the builder that serves it
  header,      \* per request: the Authorization header it carried
  auth,        \* per request: the local `auth` object of the invocation
  user,        \* per request: the local `user` object, as <<field, value>> entries
  token,       \* per request: the credential handed to verifyAsync
  verifyCalls, \* per request: how often verifyAsync was called
  verdict,     \* per request: what verifyAsync settled with
  result,      \* per request: the context the invocation returned
  error,       \* per request: the error the invocation rejected with
  tokenCache,  \* the builder's tokenCache: tokens verified before
  lastCall     \* the last evaluator call made on a returned context

vars == <<pc, variant, header, auth, user, token, verifyCalls, verdict, result, error,
          tokenCache, lastCall>>

\* ------------------------------------------------------ the context builder
\* const auth = { isLoggedIn: false, scopes: [], events: [] }
DefaultAuth == [isLoggedIn |-> FALSE, scopes |-> <<>>, events |-> EventsArray]

\* `auth` hoisted out of the returned function: an invocation starts from what
\* the first invocation's object holds.
NewAuthHoisted(r, locals) == locals[1]

\* The `auth` an invocation starts from: a fresh object of its own, whatever
\* the locals of the other invocations hold.
NewAuth(r, locals) == DefaultAuth

\* const [authType, token] = (authorization || '').split(/\s+/, 2)
ParseAuthorization(h) ==
  LET parts == SplitWsLimit(IF h.present THEN h.str ELSE <<>>, 2)
  IN [authType |-> parts[1],
      token |-> IF Len(parts) >= 2 THEN JsStr(Piece(parts[2])) ELSE JsNull]

\* The bearer test without its `&& token`.
IsBearerSchemeOnly(parsed) == ToLowerCase(parsed.authType) = "bearer"

\* authType.toLowerCase() === 'bearer' && token
IsBearer(parsed) == ToLowerCase(parsed.authType) = "bearer" /\ Truthy(parsed.token)

ClaimValue(payload, name) ==
  IF \E kv \in payload.claims : kv[1] = name
  THEN (CHOOSE kv \in payload.claims : kv[1] = name)[2]
  ELSE Undefined

\* user = { userId, username, email, corporateEmail, phoneNumber, pronoun }
UserOf(payload) ==
  { <<"userId", ClaimValue(payload, "sub")>>,
    <<"username", ClaimValue(payload, "https://codeday.xyz/username")>>,
    <<"email", ClaimValue(payload, "email")>>,
    <<"corporateEmail", ClaimValue(payload, "https://codeday.xyz/email")>>,
    <<"phoneNumber", ClaimValue(payload, "https://codeday.xyz/phone_number")>>,
    <<"pronoun", ClaimValue(payload, "https://codeday.xyz/pronoun")>> }

\* auth.isLoggedIn = true; auth.scopes = scope.split(/\s+/g); auth.events = events
\* (reached only when the scope claim is a string).
PopulatedAuth(payload) ==
  [isLoggedIn |-> TRUE, scopes |-> SplitWs(payload.scope.str), events |-> payload.events]

\* The returned context: { auth: { ...auth, ...helpers }, user }.  The helpers
\* close over auth.scopes and auth.events; which helpers depends on the builder.
NoContext == [variant |-> "none", isLoggedIn |-> FALSE, scopes |-> <<>>,
              events |-> EventsArray, user |-> {}]
MakeContext(v, a, u) ==
  [variant |-> v, isLoggedIn |-> a.isLoggedIn, scopes |-> a.scopes,
   events |-> a.events, user |-> u]

\* A catch around the await that rethrows a new plain Error.
AwaitRejectedWrapped(e) == PlainError(e.message)

\* An awaited promise that rejects: the rejection is rethrown as it is.
AwaitRejected(e) == e

NoVerdict == [kind |-> "none", name |-> ""]
NoCall == [req |-> 0, fn |-> "none", scope |-> Null, event |-> "", permission |-> Null,
           outcome |-> RetVoid]

Init ==
  /\ pc = [r \in Requests |-> "idle"]
  /\ variant = [r \in Requests |-> "apollo"]
  /\ header = [r \in Requests |-> HeaderAbsent]
  /\ auth = [r \in Requests |-> DefaultAuth]
  /\ user = [r \in Requests |-> {}]
  /\ token = [r \in Requests |-> ""]
  /\ verifyCalls = [r \in Requests |-> 0]
  /\ verdict = [r \in Requests |-> NoVerdict]
  /\ result = [r \in Requests |-> NoContext]
  /\ error = [r \in Requests |-> NoError]
  /\ tokenCache = {}
  /\ lastCall = NoCall

\* The builder's returned async function, from its entry to its first
\* suspension (the await of verifyAsync) or, without a bearer credential, to
\* its return.
Invoke(r, v, h) ==
  /\ pc[r] = "idle"
  /\ variant' = [variant EXCEPT ![r] = v]
  /\ header' = [header EXCEPT ![r] = h]
  /\ user' = [user EXCEPT ![r] = {}]
  /\ auth' = [auth EXCEPT ![r] = NewAuth(r, auth)]
  /\ LET parsed == ParseAuthorization(h)
     IN IF IsBearer(parsed)
        THEN /\ token' = [token EXCEPT ![r] = Word(parsed.token.str)]
             /\ verifyCalls' = [verifyCalls EXCEPT ![r] = @ + 1]
             /\ pc' = [pc EXCEPT ![r] = "awaiting"]
             /\ UNCHANGED result
        ELSE /\ result' = [result EXCEPT ![r] = MakeContext(v, auth'[r], user'[r])]
             /\ pc' = [pc EXCEPT ![r] = "returned"]
             /\ UNCHANGED <<token, verifyCalls>>
  /\ UNCHANGED <<verdict, error, tokenCache, lastCall>>

\* verifyAsync resolves with the token's claims and the function runs on to
\* its end: it populates auth and user and returns the context, or raises the
\* TypeError of scope.split when the payload has no scope claim.
Resolve(r) ==
  /\ pc[r] = "awaiting"
  /\ token[r] \in ValidTokens
  /\ LET payload == TokenClaims(token[r])
     IN /\ verdict' = [verdict EXCEPT ![r] = [kind |-> "claims", name |-> token[r]]]
        /\ tokenCache' = tokenCache \cup {token[r]}
        /\ IF ~payload.scope.present
           THEN /\ auth' = [auth EXCEPT ![r].isLoggedIn = TRUE]
                /\ error' = [error EXCEPT ![r] =
                               TypeError(<<"Cannot read property 'split' of undefined">>)]
                /\ pc' = [pc EXCEPT ![r] = "thrown"]
                /\ UNCHANGED <<user, result>>
           ELSE /\ auth' = [auth EXCEPT ![r] = PopulatedAuth(payload)]
                /\ user' = [user EXCEPT ![r] = UserOf(payload)]
                /\ result' = [result EXCEPT ![r] = MakeContext(variant[r], auth'[r], user'[r])]
                /\ pc' = [pc EXCEPT ![r] = "returned"]
                /\ UNCHANGED error
  /\ UNCHANGED <<variant, header, token, verifyCalls, lastCall>>

\* verifyAsync rejects (the token is refused, or the key fetch fails or is
\* cancelled): the invocation rejects with that error.
Reject(r, e) ==
  /\ pc[r] = "awaiting"
  /\ e \in VerifyErrors(token[r], tokenCache)
  /\ verdict' = [verdict EXCEPT ![r] = [kind |-> "error", name |-> e]]
  /\ error' = [error EXCEPT ![r] = AwaitRejected(VerificationError(e))]
  /\ pc' = [pc EXCEPT ![r] = "thrown"]
  /\ UNCHANGED <<variant, header, auth, user, token, verifyCalls, result, tokenCache, lastCall>>

\* ------------------------------------------------------- evaluator calls
\* The functions are synchronous: a call is made on a returned context once
\* the call before it is over.
CanCall(r) == pc[r] = "returned" /\ lastCall = NoCall

Called(r, fn, scope, event, permission, outcome) ==
  /\ lastCall' = [req |-> r, fn |-> fn, scope |-> scope, event |-> event,
                  permission |-> permission, outcome |-> outcome]
  /\ UNCHANGED <<pc, variant, header, auth, user, token, verifyCalls, verdict, result,
                 error, tokenCache>>

\* A handler calls one function of the context request r was given.
CallScope(r) ==
  /\ CanCall(r)
  /\ \E scope \in ScopeArgs :
       \/ Called(r, "hasScope", scope, "", Null, hasScope(result[r], scope))
       \/ Called(r, "requireScope", scope, "", Null, requireScope(result[r], scope))

CallEvent(r) ==
  /\ CanCall(r)
  /\ \E event \in EventArgs :
       \/ Called(r, "hasEvent", Null, event, Null, hasEvent(result[r], event))
       \/ Called(r, "requireEvent", Null, event, Null, requireEvent(result[r], event))

CallEventScope(r) ==
  /\ CanCall(r)
  /\ \E event \in EventArgs, permission \in PermissionArgs :
       \/ Called(r, "hasEventScope", Null, event, permission,
                 hasEventScope(result[r], event, permission))
       \/ Called(r, "requireEventScope", Null, event, permission,
                 requireEventScope(result[r], event, permission))

CallScopeOrEvent(r) ==
  /\ CanCall(r)
  /\ \E scope \in ScopeArgs, event \in EventArgs :
       \/ Called(r, "hasScopeOrEvent", scope, event, Null,
                 hasScopeOrEvent(result[r], scope, event))
       \/ Called(r, "requireScopeOrEvent", scope, event, Null,
                 requireScopeOrEvent(result[r], scope, event))

CallScopeOrEventScope(r) ==
  /\ CanCall(r)
  /\ \E scope \in ScopeArgs, event \in EventArgs, permission \in PermissionArgs :
       \/ Called(r, "hasScopeOrEventScope", scope, event, permission,
                 hasScopeOrEventScope(result[r], scope, event, permission))
       \/ Called(r, "requireScopeOrEventScope", scope, event, permission,
                 requireScopeOrEventScope(result[r], scope, event, permission))

CallRequireLoggedIn(r) ==
  /\ CanCall(r)
  /\ Called(r, "requireLoggedIn", Null, "", Null, requireLoggedIn(result[r]))

\* The handler is done with the outcome of its call.
CallOver ==
  /\ lastCall # NoCall
  /\ lastCall' = NoCall
  /\ UNCHANGED <<pc, variant, header, auth, user, token, verifyCalls, verdict, result,
                 error, tokenCache>>

\* `throw new MissingScopeError(requiresGlobal, requiresEvent)` on its own.
RequirementWords == {"a", "b", "c"}
Requirements ==
  {Null, Str(""), Arr(<<"">>)}
  \cup {Str(w) : w \in RequirementWords}
  \cup {Arr(q) : q \in SeqsUpTo(RequirementWords, MaxReqs)}

ThrowMissingScope(requiresGlobal, requiresEvent) ==
  /\ lastCall = NoCall
  /\ lastCall' = [req |-> 0, fn |-> "MissingScopeError", scope |-> requiresGlobal,
                  event |-> "", permission |-> requiresEvent,
                  outcome |-> Thrown(MissingScopeError(requiresGlobal, requiresEvent))]
  /\ UNCHANGED <<pc, variant, header, auth, user, token, verifyCalls, verdict, result,
                 error, tokenCache>>

\* ------------------------------------------------------- specifications
\* One request, served by either builder, and the calls made on its context.
Next ==
  \/ \E v \in Variants, h \in Headers : Invoke(1, v, h)
  \/ Resolve(1)
  \/ \E e \in {"TokenExpiredError", "JsonWebTokenError", "SigningKeyNotFoundError", "Cancelled"} :
       Reject(1, e)
  \/ CallScope(1)
  \/ CallEvent(1)
  \/ CallEventScope(1)
  \/ CallScopeOrEvent(1)
  \/ CallScopeOrEventScope(1)
  \/ CallRequireLoggedIn(1)
  \/ CallOver

Spec == Init /\ [][Next]_vars

\* Several invocations of the current builder, interleaved around their
\* suspension at verifyAsync.
NextConc ==
  \/ \E r \in Requests, h \in ConcHeaders : Invoke(r, "apollo", h)
  \/ \E r \in Requests : Resolve(r)
  \/ \E r \in Requests, e \in {"TokenExpiredError", "SigningKeyNotFoundError", "Cancelled"} :
       Reject(r, e)

SpecConc == Init /\ [][NextConc]_vars

\* The MissingScopeError constructor over every pair of requirement arguments.
NextMsg ==
  \/ \E g \in Requirements, e \in Requirements : ThrowMissingScope(g, e)
  \/ CallOver

SpecMsg == Init /\ [][NextMsg]_vars

\* ================================================================ claims
\* What the claims are stated with, independent of the code's operators.
GivenSet(x) == IF x.t = "arr" THEN {x.a[i] : i \in 1..Len(x.a)} ELSE {x.s}
ScopeSetOf(ctx) == {ctx.scopes[i] : i \in 1..Len(ctx.scopes)}
HasMapping(ctx, event) == \E kv \in ctx.events.own : kv[1] = event
MappedTo(ctx, event, permission) ==
  \E kv \in ctx.events.own : kv[1] = event /\ kv[2] \in GivenSet(permission)
CalledOn == result[lastCall.req]

\* C1: hasScope(s) returns true exactly when at least one of the given scopes
\* is a member of the Principal's scopes; it returns false for the empty array
\* and for the anonymous Principal.
C1_HasScopeIffMember ==
  lastCall.fn = "hasScope" =>
    /\ lastCall.outcome.kind = "return"
    /\ lastCall.outcome.val <=> (GivenSet(lastCall.scope) \cap ScopeSetOf(CalledOn) # {})
    /\ lastCall.scope = Arr(<<>>) => ~lastCall.outcome.val
    /\ ~CalledOn.isLoggedIn => ~lastCall.outcome.val

\* C1's case: an array whose first entry is not granted and whose second is,
\* answered true.
C1_Witness ==
  /\ lastCall.fn = "hasScope"
  /\ lastCall.scope = Arr(<<"nope", "admin">>)
  /\ lastCall.outcome = Ret(TRUE)

\* C2: requireScope(s) throws a MissingScope error exactly when hasScope(s) is
\* false and returns normally when it is true, in every builder.
C2_RequireScopeThrowsIffNotHasScope ==
  lastCall.fn = "requireScope" =>
    IF GivenSet(lastCall.scope) \cap ScopeSetOf(CalledOn) # {}
    THEN lastCall.outcome = RetVoid
    ELSE lastCall.outcome.kind = "throw" /\ lastCall.outcome.err.name = "MissingScopeError"

\* C3: for an event id with no mapping in the Principal's events, hasEvent
\* returns false and hasEventScope returns false for every permission, without
\* throwing.
C3_NoMappingIsFalse ==
  (lastCall.fn \in {"hasEvent", "hasEventScope"} /\ ~HasMapping(CalledOn, lastCall.event)) =>
    lastCall.outcome = Ret(FALSE)

\* The scheme and the credential of a header, read off its pieces: the scheme
\* is the leading non-whitespace piece ('' when the value is empty or starts
\* with whitespace), the credential the next non-whitespace piece.
SchemeOf(h) == IF h.str = <<>> \/ h.str[1] = WS THEN "" ELSE h.str[1]
CredentialOf(h) ==
  LET rest == SelectSeq(Tail(h.str), LAMBDA x : x # WS)
  IN IF rest = <<>> THEN "" ELSE rest[1]
BearerSpellings == {"bearer", "Bearer", "BEARER"}
\* Absent, empty, a scheme other than bearer, or bearer with no credential.
NoBearerCredential(h) ==
  \/ ~h.present
  \/ h.str = <<>>
  \/ SchemeOf(h) \notin BearerSpellings
  \/ CredentialOf(h) = ""

FullyAnonymous(ctx) ==
  /\ ~ctx.isLoggedIn
  /\ ctx.scopes = <<>>
  /\ ctx.events.t = "array" /\ ctx.events.own = {}
  /\ ctx.user = {}

\* Every field of the context is the verified payload's: the events claim as
\* it came, the words of the scope claim, the identity claims.
FullyPopulated(ctx, payload) ==
  /\ ctx.isLoggedIn
  /\ ctx.events = payload.events
  /\ payload.scope.present
  /\ ScopeSetOf(ctx) \ {""} = {payload.scope.str[i] : i \in 1..Len(payload.scope.str)} \ {WS}
  /\ {kv[2] : kv \in ctx.user} \ {Undefined} = {kv[2] : kv \in payload.claims}
  /\ Cardinality(ctx.user) = 6

\* C4: a header that is absent, empty, of a scheme other than bearer, or bearer
\* without a credential never reaches the verification collaborator, raises no
\* error and yields isLoggedIn = false, empty scopes, empty events and an
\* identity record with no fields.
C4_MalformedHeaderIsAnonymous ==
  \A r \in Requests :
    (pc[r] # "idle" /\ NoBearerCredential(header[r])) =>
      /\ pc[r] = "returned"
      /\ verifyCalls[r] = 0
      /\ verdict[r] = NoVerdict
      /\ error[r] = NoError
      /\ FullyAnonymous(result[r])

\* C4's case: a bearer scheme followed by whitespace only, served.
C4_Witness ==
  /\ header[1] = HeaderOf(<<"bearer", WS>>)
  /\ pc[1] = "returned"
  /\ variant[1] = "apollo"

\* C5: when verification fails or is cancelled the invocation raises that same
\* error and returns no context; a context a caller sees is fully anonymous
\* or fully populated from the verified claims, never a mixture.
C5_AllOrNothing ==
  \A r \in Requests :
    /\ verdict[r].kind = "error" =>
         /\ pc[r] = "thrown"
         /\ error[r] = VerificationError(verdict[r].name)
         /\ result[r] = NoContext
    /\ pc[r] # "returned" => result[r] = NoContext
    /\ pc[r] = "returned" =>
         \/ verdict[r].kind = "none" /\ FullyAnonymous(result[r])
         \/ /\ verdict[r].kind = "claims"
            /\ FullyPopulated(result[r], TokenClaims(CredentialOf(header[r])))

\* C5's case: the verification of a well-formed token was cancelled at the
\* await and the invocation has raised.
C5_Witness ==
  /\ pc[1] = "thrown"
  /\ verdict[1] = [kind |-> "error", name |-> "Cancelled"]
  /\ header[1] = HeaderOf(<<"Bearer", WS, "tFull">>)

\* C6: in every returned context scopes and events are defined containers,
\* whatever payload verification returned, and every has* function returns a
\* boolean rather than raising (stated for the current builder).
C6_DefinedAndTotal ==
  /\ \A r \in Requests :
       (pc[r] = "returned" /\ variant[r] = "apollo") => result[r].events.t # "undefined"
  /\ (/\ lastCall.fn \in {"hasScope", "hasEvent", "hasEventScope", "hasScopeOrEvent",
                          "hasScopeOrEventScope"}
      /\ CalledOn.variant = "apollo")
       => lastCall.outcome.kind = "return"

\* C7: hasScopeOrEventScope returns hasScope(scope) OR hasEventScope(eventId,
\* eventPermission), and requireScopeOrEventScope throws MissingScope carrying
\* (scope, eventPermission) exactly when both are false, in every builder.
C7_ScopeOrEventScope ==
  LET either == \/ GivenSet(lastCall.scope) \cap ScopeSetOf(CalledOn) # {}
                \/ MappedTo(CalledOn, lastCall.event, lastCall.permission)
  IN /\ lastCall.fn = "hasScopeOrEventScope" => lastCall.outcome = Ret(either)
     /\ lastCall.fn = "requireScopeOrEventScope" =>
          IF either THEN lastCall.outcome = RetVoid
          ELSE lastCall.outcome =
                 Thrown([name |-> "MissingScopeError",
                         message |-> MissingScopeMessage(lastCall.scope, lastCall.permission)])

\* C8: requireLoggedIn throws a MustLogIn error exactly when the context's
\* isLoggedIn is false and returns normally otherwise; isLoggedIn is true
\* exactly when a bearer credential was present and verification succeeded.
C8_RequireLoggedIn ==
  /\ lastCall.fn = "requireLoggedIn" =>
       IF CalledOn.isLoggedIn THEN lastCall.outcome = RetVoid
       ELSE lastCall.outcome.kind = "throw" /\ lastCall.outcome.err.name = "MustLogInError"
  /\ \A r \in Requests :
       pc[r] = "returned" =>
         (result[r].isLoggedIn <=>
            (~NoBearerCredential(header[r]) /\ verdict[r].kind = "claims"))

\* A message read as pieces.
HasPiece(m, x) == \E i \in 1..Len(m) : m[i] = x
Contains(m, sub) == \E i \in 0..(Len(m) - Len(sub)) : SubSeq(m, i + 1, i + Len(sub)) = sub
\* 'a, b, or c' for a list of n > 1 entries.
ListText(q) ==
  [i \in 1..(2 * Len(q) - 1) |->
     IF i % 2 = 1 THEN q[(i + 1) \div 2]
     ELSE IF i = 2 * Len(q) - 2 THEN ", or " ELSE ", "]
NonEmptyRequirement(x) == (x.t = "str" /\ x.s # "") \/ (x.t = "arr" /\ Len(x.a) > 0)
EmptyOrAbsent(x) == x = Null \/ x = Str("") \/ x = Arr(<<>>)
Denied == "You don't have permission for that."

\* C9: the MissingScope message holds a clause for a requirement only when the
\* requirement is non-empty, renders a list of n > 1 entries as 'a, b, or c',
\* and has no '(Requires ...)' part when both requirements are empty or
\* absent; [a, b, c] with null reads 'a, b, or c global scope' and no event
\* clause.
C9_MessageRendering ==
  lastCall.fn = "MissingScopeError" =>
    LET g == lastCall.scope
        e == lastCall.permission
        m == lastCall.outcome.err.message
    IN /\ lastCall.outcome.err.name = "MissingScopeError"
       /\ m[1] = Denied
       /\ HasPiece(m, " global scope") => NonEmptyRequirement(g)
       /\ HasPiece(m, " event scope") => NonEmptyRequirement(e)
       /\ (g.t = "arr" /\ Len(g.a) > 1) => Contains(m, ListText(g.a) \o <<" global scope">>)
       /\ (e.t = "arr" /\ Len(e.a) > 1) => Contains(m, ListText(e.a) \o <<" event scope">>)
       /\ (EmptyOrAbsent(g) /\ EmptyOrAbsent(e)) => m = <<Denied>>
       /\ HasPiece(m, "(Requires ") <=> (HasPiece(m, " global scope") \/ HasPiece(m, " event scope"))
       /\ (g = Arr(<<"a", "b", "c">>) /\ e = Null) =>
            m = <<Denied, "(Requires ", "a", ", ", "b", ", or ", "c", " global scope", ")">>

\* C9's case: the error built for requiresGlobal = [a, b, c], requiresEvent = null.
C9_Witness ==
  /\ lastCall.fn = "MissingScopeError"
  /\ lastCall.scope = Arr(<<"a", "b", "c">>)
  /\ lastCall.permission = Null
  /\ HasPiece(lastCall.outcome.err.message, ", or ")

Finished(r) == pc[r] \in {"returned", "thrown"}

\* What request r's invocation must come to, from its own header and the
\* claims of its own token alone.
OwnOutcome(r) ==
  /\ pc[r] = "returned" =>
       IF NoBearerCredential(header[r]) THEN FullyAnonymous(result[r])
       ELSE FullyPopulated(result[r], TokenClaims(CredentialOf(header[r])))
  /\ pc[r] = "thrown" =>
       /\ ~NoBearerCredential(header[r])
       /\ result[r] = NoContext
       /\ verdict[r].kind = "claims" => ~TokenClaims(CredentialOf(header[r])).scope.present

\* C10: with invocations interleaved in any order around their suspension,
\* each one's context depends only on its own header and its own verified
\* claims: equal inputs give equal outcomes, and no step of one invocation
\* changes the locals, the context or the error of another.
C10_Independent ==
  /\ [](\A r \in Requests : OwnOutcome(r))
  /\ [](\A r1, r2 \in Requests :
          (Finished(r1) /\ Finished(r2) /\ header[r1] = header[r2] /\ verdict[r1] = verdict[r2])
            => (result[r1] = result[r2] /\ error[r1] = error[r2]))
  /\ [][\A r \in Requests :
          /\ pc'[r] = pc[r] =>
               (auth'[r] = auth[r] /\ user'[r] = user[r] /\ result'[r] = result[r]
                /\ error'[r] = error[r])
          /\ Finished(r) => pc'[r] = pc[r]]_vars

\* C10's case: request 2 was served to its end and is logged in while request
\* 1 is suspended at its verification.
C10_Witness ==
  /\ pc[1] = "awaiting"
  /\ header[1] = HeaderOf(<<"bearer", WS, "tNoEvents">>)
  /\ pc[2] = "returned"
  /\ result[2].isLoggedIn
  /\ header[2] = HeaderOf(<<"Bearer", WS, "tFull">>)

====
